---- MODULE Spec2Model ----
(***************************************************************************)
(* A model of InstaScan (src/Instascan.py): the post aggregation           *)
(* (analyze_posts, analyze_posting_patterns), the connection diff          *)
(* (analyze_connections), the presence probe (search_external_references   *)
(* with its nested check_url), the export (export_results) and the         *)
(* orchestration (run).                                                    *)
(*                                                                         *)
(* Conventions.  An optional value (Python's None or a value) is a         *)
(* sequence of length 0 or 1.  A Python dict is a record or a function; an *)
(* insertion-ordered dict used as a counter is a sequence of <<key, count>>*)
(* pairs in first-seen order.  A datetime is a number of whole hours since *)
(* 1970-01-01 00:00 UTC (a Thursday); a float quotient a / b is the record *)
(* [num |-> a, den |-> b].                                                 *)
(***************************************************************************)
EXTENDS Integers, Sequences, FiniteSets, TLC

VARIABLES
    \* ---- inputs: the configuration and what the provider would answer
    profile_exists,  \* whether Profile.from_username finds the target
    is_private,      \* profile.is_private
    is_logged_in,    \* self.L.context.is_logged_in
    external_search, \* self.args.external_search
    output_format,   \* self.output_format
    source,          \* the posts profile.get_posts() would yield, in order
    failAt,          \* the post iterator raises once this many posts were yielded
    max_posts,       \* self.max_posts
    followers_src,   \* what profile.get_followers() would yield, in order
    followees_src,   \* what profile.get_followees() would yield, in order
    times_arg,       \* the argument of a direct call of analyze_posting_patterns
    \* ---- run(): position, locals and what was printed
    pc,              \* position inside run() and the stage it called
    stages,          \* the stage methods called so far, in call order
    printed,         \* the diagnostic lines printed so far, in order
    profile_data,    \* <<>> before get_profile_data returns
    posts_analysis,  \* <<>> before analyze_posts returns
    connections,     \* None / the dict analyze_connections returned
    external_refs,   \* None / the list search_external_references returned
    \* ---- analyze_posts(): the locals of lines 114-118 and the iterator
    pulled,          \* how many times the provider iterator was advanced
    i,               \* enumerate()'s index of the post last yielded
    posts_data,
    locations,
    hashtags,
    mentions,
    post_times,
    \* ---- analyze_posting_patterns() called directly
    time_patterns,   \* <<>> before it returns
    \* ---- export_results(): the dict of lines 347-357 and the files
    results,         \* <<>> before export_results builds it
    artifact,        \* the file the current with-block writes
    fs,              \* the results directory: artifact -> file state
    exception,       \* None / the exception that left export_results and run
    \* ---- search_external_references(): the pool, its tasks, the result list
    probe_pc,
    task,            \* site index -> "queued", "running" or "done"
    response,        \* site index -> what the network answered (<<>> before)
    future,          \* site index -> how check_url ended (<<>> before)
    collected,       \* the list executor.map's iterator has produced so far
    overtaken        \* history: some call ended before a call submitted earlier

inputVars == <<profile_exists, is_private, is_logged_in, external_search,
               output_format, source, failAt, max_posts, followers_src,
               followees_src, times_arg>>
postLocals == <<pulled, i, posts_data, locations, hashtags, mentions, post_times>>
exportVars == <<results, artifact, fs, exception>>
probeVars == <<probe_pc, task, response, future, collected, overtaken>>
vars == <<inputVars, pc, stages, printed, profile_data, posts_analysis,
          connections, external_refs, postLocals, time_patterns, exportVars,
          probeVars>>

\* ------------------------------------------------------------------------
\* Generic helpers
\* ------------------------------------------------------------------------
None == <<>>
Some(x) == <<x>>
EmptyDict == [k \in {} |-> 0]

Min(a, b) == IF a <= b THEN a ELSE b
Max(a, b) == IF a >= b THEN a ELSE b
Abs(a) == IF a >= 0 THEN a ELSE -a
Range(s) == {s[k] : k \in 1..Len(s)}
Reverse(s) == [k \in 1..Len(s) |-> s[Len(s) + 1 - k]]
Prefix(s, n) == SubSeq(s, 1, Min(n, Len(s)))

RECURSIVE SeqsUpTo(_, _)
\* All sequences over S of length at most n.
SeqsUpTo(S, n) ==
    IF n = 0 THEN {<<>>}
    ELSE LET shorter == SeqsUpTo(S, n - 1)
         IN  shorter \cup {Append(s, x) : s \in {t \in shorter : Len(t) = n - 1}, x \in S}

\* ------------------------------------------------------------------------
\* Bounds of the model
\* ------------------------------------------------------------------------
MaxPosts == 3        \* longest provider sequence drawn for analyze_posts
MaxLimit == 3        \* largest max_posts drawn for analyze_posts
NoFail == 0 - 1      \* failAt value of an iterator that never raises

\* ------------------------------------------------------------------------
\* datetime: hours since the epoch
\* ------------------------------------------------------------------------
HoursPerDay == 24
EpochWeekday == 3    \* 1970-01-01 is a Thursday; Monday is 0

\* datetime.weekday()
weekday(t) == ((t \div HoursPerDay) + EpochWeekday) % 7
\* datetime.hour
hour(t) == t % HoursPerDay
\* timedelta.days of (a - b): timedelta normalises to 0 <= seconds < 86400,
\* so days is the floor of the difference in days.
timedelta_days(a, b) == (a - b) \div HoursPerDay
\* strftime("%Y-%m-%d %H:%M:%S"): the calendar day and the time of day
strftime(t) == [date |-> t \div HoursPerDay, time |-> t % HoursPerDay]

\* ------------------------------------------------------------------------
\* analyze_posting_patterns (lines 201-223)
\* ------------------------------------------------------------------------
days_of_week == <<"Monday", "Tuesday", "Wednesday", "Thursday", "Friday",
                  "Saturday", "Sunday">>
Hours == 0..23

\* The dict comprehension of line 207 followed by the loop's line 211.
day_counts(ts) ==
    [d \in Range(days_of_week) |->
        Cardinality({k \in 1..Len(ts) : days_of_week[weekday(ts[k]) + 1] = d})]
\* The dict comprehension of line 208 followed by the loop's line 212.
hour_counts(ts) ==
    [h \in Hours |-> Cardinality({k \in 1..Len(ts) : hour(ts[k]) = h})]

\* max(d.items(), key=lambda x: x[1])[0] over a dict d whose keys are
\* enumerated in the order keys: the first key holding the largest value.
FirstMaxKey(keys, d) ==
    LET best == CHOOSE k \in 1..Len(keys) :
                    /\ \A j \in 1..Len(keys) : d[keys[j]] <= d[keys[k]]
                    /\ \A j \in 1..(k - 1) : d[keys[j]] < d[keys[k]]
    IN  keys[best]

HourKeys == [k \in 1..24 |-> k - 1]

\* The divisor of line 222: max((post_times[0] - post_times[-1]).days, 1)
FrequencySpan(ts) == Max(timedelta_days(ts[1], ts[Len(ts)]), 1)

\* post_frequency_days of line 222
post_frequency_days(ts) ==
    IF Len(ts) > 1 THEN [num |-> Len(ts), den |-> FrequencySpan(ts)]
    ELSE [num |-> 0, den |-> 1]

\* What line 203-204 return for an empty list.
EmptyPatterns == EmptyDict

\* Mutant: without the early return of lines 203-204.
analyze_posting_patterns_unguarded(ts) ==
    [most_active_day |-> FirstMaxKey(days_of_week, day_counts(ts)),
     day_activity |-> day_counts(ts),
     most_active_hour |-> FirstMaxKey(HourKeys, hour_counts(ts)),
     hour_activity |-> hour_counts(ts),
     post_frequency_days |-> post_frequency_days(ts)]

analyze_posting_patterns(ts) ==
    IF ts = <<>> THEN EmptyPatterns
    ELSE [most_active_day |-> FirstMaxKey(days_of_week, day_counts(ts)),
          day_activity |-> day_counts(ts),
          most_active_hour |-> FirstMaxKey(HourKeys, hour_counts(ts)),
          hour_activity |-> hour_counts(ts),
          post_frequency_days |-> post_frequency_days(ts)]

\* ------------------------------------------------------------------------
\* Provider records: a post as instaloader hands it over.  likes, comments,
\* caption and is_video are copied to the summary unchanged and are left out.
\* ------------------------------------------------------------------------
Post(sc, t, loc, tags, ments) ==
    [shortcode |-> sc, date_utc |-> t, location |-> loc,
     caption_hashtags |-> tags, caption_mentions |-> ments]

Paris == [name |-> "Paris", id |-> 7, lat |-> 48, lng |-> 2]

\* Monday 1970-01-05 10:00, Monday 14:00 and Wednesday 1970-01-07 09:00 (the
\* hours 106, 110 and 153 since the epoch), newest last.
PostA == Post("A", 106, Some(Paris), <<"cat", "dog">>, <<"bob">>)
PostB == Post("B", 110, None, <<"cat">>, <<>>)
PostC == Post("C", 153, None, <<>>, <<"bob", "eve">>)
PostPool == {PostA, PostB, PostC}

\* ------------------------------------------------------------------------
\* analyze_posts (lines 109-199)
\* ------------------------------------------------------------------------
post_url(p) == <<"https://www.instagram.com/p/", p.shortcode, "/">>

\* The post_data dict of lines 127-138.
PostSummary(p) ==
    [shortcode |-> p.shortcode,
     url |-> post_url(p),
     timestamp |-> strftime(p.date_utc),
     location |-> IF p.location # None THEN Some(p.location[1].name) ELSE None,
     hashtags |-> p.caption_hashtags,
     mentioned_users |-> p.caption_mentions]

\* The location dict of lines 148-154.
LocationEntry(p) ==
    [name |-> p.location[1].name, id |-> p.location[1].id,
     lat |-> p.location[1].lat, lng |-> p.location[1].lng,
     post_url |-> post_url(p)]

\* d[key] = d.get(key, 0) + 1 on an insertion-ordered dict (lines 158, 162).
Increment(d, key) ==
    IF \E k \in 1..Len(d) : d[k][1] = key
    THEN [k \in 1..Len(d) |-> IF d[k][1] = key THEN <<key, d[k][2] + 1>> ELSE d[k]]
    ELSE Append(d, <<key, 1>>)

RECURSIVE CountAll(_, _)
\* The for loops of lines 157-158 and 161-162.
CountAll(d, keys) ==
    IF keys = <<>> THEN d
    ELSE CountAll(Increment(d, Head(keys)), Tail(keys))

\* A descending sort that is not stable: an item goes before the items of
\* equal count placed earlier.
InsertByCountUnstable(sorted, item) ==
    LET before == Cardinality({k \in 1..Len(sorted) : sorted[k][2] > item[2]})
    IN  SubSeq(sorted, 1, before) \o <<item>> \o SubSeq(sorted, before + 1, Len(sorted))

\* Where a stable descending sort puts an item of count c among the items
\* already placed: after every item whose count is at least c.
InsertByCount(sorted, item) ==
    LET before == Cardinality({k \in 1..Len(sorted) : sorted[k][2] >= item[2]})
    IN  SubSeq(sorted, 1, before) \o <<item>> \o SubSeq(sorted, before + 1, Len(sorted))

RECURSIVE SortedByCount(_)
\* sorted(d.items(), key=lambda x: x[1], reverse=True) of lines 173-174:
\* descending by count, items of equal count in their original order.
SortedByCount(items) ==
    IF items = <<>> THEN <<>>
    ELSE InsertByCount(SortedByCount(SubSeq(items, 1, Len(items) - 1)),
                       items[Len(items)])

TopN == 20

\* Mutant: the break test off by one.
LimitReachedOffByOne(index, limit) == index > limit

\* The break test of line 124.
LimitReached(index, limit) == index >= limit

\* The dict of lines 179-186.
AnalysisResults(pd, locs, tags, ments, times) ==
    [posts_analyzed |-> Len(pd),
     posts_data |-> pd,
     locations |-> locs,
     top_hashtags |-> Prefix(SortedByCount(tags), TopN),
     top_mentions |-> Prefix(SortedByCount(ments), TopN),
     time_patterns |-> analyze_posting_patterns(times)]

\* The dict the except clause returns (lines 192-199).
FailedAnalysisResults ==
    [posts_analyzed |-> 0, posts_data |-> <<>>, locations |-> <<>>,
     top_hashtags |-> <<>>, top_mentions |-> <<>>, time_patterns |-> EmptyDict]

\* Mutant: the except clause returning what the loop collected so far.
ExceptKeepsPrefix(pd, locs, tags, ments, times) ==
    AnalysisResults(pd, locs, tags, ments, times)

\* What the except clause of lines 190-199 returns once the loop has
\* collected pd, locs, tags, ments and times.
ExceptResults(pd, locs, tags, ments, times) == FailedAnalysisResults

ErrAnalyzingPosts == "[!] Error analyzing posts"

\* Lines 111-121: the locals, and posts = profile.get_posts() (lazy: nothing
\* is fetched before the loop asks for the first post).
AnalyzePostsBegin ==
    /\ pc = "analyze_posts"
    /\ pc' = "posts_loop"
    /\ stages' = Append(stages, "analyze_posts")
    /\ posts_data' = <<>>
    /\ locations' = <<>>
    /\ hashtags' = <<>>
    /\ mentions' = <<>>
    /\ post_times' = <<>>
    /\ pulled' = 0
    /\ i' = 0 - 1
    /\ UNCHANGED <<posts_analysis, printed, inputVars, profile_data, connections, external_refs,
                   time_patterns, exportVars, probeVars>>

\* Line 123, the provider raising when asked for the next post; the except
\* clause of lines 190-199 returns.
PostsRaise ==
    /\ pc = "posts_loop"
    /\ failAt = pulled
    /\ pulled' = pulled + 1
    /\ printed' = Append(printed, ErrAnalyzingPosts)
    /\ posts_analysis' = Some(ExceptResults(posts_data, locations, hashtags,
                                            mentions, post_times))
    /\ pc' = "connections"
    /\ UNCHANGED <<i, posts_data, locations, hashtags, mentions, post_times,
                   stages, inputVars, profile_data, connections, external_refs,
                   time_patterns, exportVars, probeVars>>

\* Line 123, the provider sequence being exhausted: the loop ends.
PostsExhausted ==
    /\ pc = "posts_loop"
    /\ failAt # pulled
    /\ pulled = Len(source)
    /\ pc' = "posts_finish"
    /\ UNCHANGED <<postLocals, posts_analysis, stages, printed,
                   inputVars, profile_data, connections, external_refs,
                   time_patterns, exportVars, probeVars>>

\* Lines 123-125: the provider yields a post and the limit is reached.
PostsBreak ==
    /\ pc = "posts_loop"
    /\ failAt # pulled
    /\ pulled < Len(source)
    /\ LimitReached(i + 1, max_posts)
    /\ pulled' = pulled + 1
    /\ i' = i + 1
    /\ pc' = "posts_finish"
    /\ UNCHANGED <<posts_data, locations, hashtags, mentions, post_times,
                   posts_analysis, stages, printed,
                   inputVars, profile_data, connections, external_refs,
                   time_patterns, exportVars, probeVars>>

\* Lines 123-167: the provider yields a post and the loop body handles it.
PostsProcess ==
    /\ pc = "posts_loop"
    /\ failAt # pulled
    /\ pulled < Len(source)
    /\ ~LimitReached(i + 1, max_posts)
    /\ LET post == source[pulled + 1]
       IN  /\ posts_data' = Append(posts_data, PostSummary(post))
           /\ post_times' = Append(post_times, post.date_utc)
           /\ locations' = IF post.location # None
                           THEN Append(locations, LocationEntry(post))
                           ELSE locations
           /\ hashtags' = CountAll(hashtags, post.caption_hashtags)
           /\ mentions' = CountAll(mentions, post.caption_mentions)
    /\ pulled' = pulled + 1
    /\ i' = i + 1
    /\ UNCHANGED <<pc, posts_analysis, stages, printed,
                   inputVars, profile_data, connections, external_refs,
                   time_patterns, exportVars, probeVars>>

\* Lines 169-188: sort, analyse the times, build and return the bundle.
PostsFinish ==
    /\ pc = "posts_finish"
    /\ posts_analysis' = Some(AnalysisResults(posts_data, locations, hashtags,
                                              mentions, post_times))
    /\ pc' = "connections"
    /\ UNCHANGED <<postLocals, stages, printed,
                   inputVars, profile_data, connections, external_refs,
                   time_patterns, exportVars, probeVars>>

AnalyzePosts ==
    \/ AnalyzePostsBegin
    \/ PostsRaise
    \/ PostsExhausted
    \/ PostsBreak
    \/ PostsProcess
    \/ PostsFinish

\* ------------------------------------------------------------------------
\* analyze_connections (lines 225-280)
\* ------------------------------------------------------------------------
User(handle, name) == [username |-> handle, full_name |-> name, is_verified |-> FALSE]

\* Two provider records may carry the same handle and differ otherwise.
UserPool == {User("ann", "Ann"), User("ann", "Ann B."), User("bob", "Bob"),
             User("eve", "Eve")}

\* The dicts appended in lines 244-248 and 253-257.
ConnectionEntries(us) ==
    [k \in 1..Len(us) |-> [username |-> us[k].username,
                           full_name |-> us[k].full_name,
                           is_verified |-> us[k].is_verified]]

\* [f["username"] for f in entries]
Usernames(entries) == [k \in 1..Len(entries) |-> entries[k].username]

RECURSIVE SelectUsernames(_, _)
\* [user["username"] for user in entries if user["username"] not in others]
SelectUsernames(entries, others) ==
    IF entries = <<>> THEN <<>>
    ELSE LET rest == SelectUsernames(Tail(entries), others)
         IN  IF Head(entries).username \notin Range(others)
             THEN <<Head(entries).username>> \o rest
             ELSE rest

\* Mutant: membership decided on the whole entry, not on the handle.
not_following_back_by_entry(followers, following) ==
    LET kept == SelectSeq(following, LAMBDA u : u \notin Range(followers))
    IN  Usernames(kept)

\* Lines 260-261.
not_following_back(followers, following) ==
    SelectUsernames(following, Usernames(followers))
\* Lines 264-265.
not_followed_back(followers, following) ==
    SelectUsernames(followers, Usernames(following))

\* What lines 229, 233 and 280 return.
NoConnections == [followers |-> <<>>, following |-> <<>>]

ErrPrivate == "[!] Profile is private, cannot analyze connections"
ErrLoginRequired == "[!] Login required to analyze connections"
ErrConnections == "[!] Error analyzing connections"

\* The value analyze_connections returns; raises: the provider raised while
\* the followers or the followees were enumerated.
analyze_connections(private, logged_in, fsrc, gsrc, raises) ==
    IF private THEN NoConnections
    ELSE IF ~logged_in THEN NoConnections
    ELSE IF raises THEN NoConnections
    ELSE LET followers == ConnectionEntries(fsrc)
             following == ConnectionEntries(gsrc)
         IN  [followers_count |-> Len(followers),
              following_count |-> Len(following),
              not_following_back |-> not_following_back(followers, following),
              not_followed_back |-> not_followed_back(followers, following),
              followers |-> followers,
              following |-> following]

\* The line analyze_connections prints when it gives up (<<>>: none).
analyze_connections_prints(private, logged_in, raises) ==
    IF private THEN <<ErrPrivate>>
    ELSE IF ~logged_in THEN <<ErrLoginRequired>>
    ELSE IF raises THEN <<ErrConnections>>
    ELSE <<>>

\* ------------------------------------------------------------------------
\* check_url (lines 298-327)
\* ------------------------------------------------------------------------
\* A URL is its host, as the list of its dot-separated labels, and its path.
Url(labels, prefix) == [netloc |-> labels, path |-> <<prefix, "target">>]

\* Lines 286-294.
sites_to_check ==
    << Url(<<"twitter", "com">>, "/"),
       Url(<<"www", "facebook", "com">>, "/"),
       Url(<<"www", "tiktok", "com">>, "/@"),
       Url(<<"www", "reddit", "com">>, "/user/"),
       Url(<<"www", "linkedin", "com">>, "/in/"),
       Url(<<"github", "com">>, "/"),
       Url(<<"www", "youtube", "com">>, "/user/") >>
NumSites == Len(sites_to_check)
Sites == 1..NumSites

\* str.capitalize() on the host labels that occur
capitalize ==
    [twitter |-> "Twitter", facebook |-> "Facebook", tiktok |-> "Tiktok",
     reddit |-> "Reddit", linkedin |-> "Linkedin", github |-> "Github",
     youtube |-> "Youtube", com |-> "Com"]

\* urlparse(url).netloc.replace("www.", "").split(".")[0].capitalize()
platform(url) ==
    LET labels == SelectSeq(url.netloc, LAMBDA l : l # "www")
    IN  capitalize[labels[1]]

\* What requests.get does: it returns a response carrying a status code, or it
\* raises (timeout, DNS failure, refused connection, TLS failure) an
\* exception whose str() is its message.
HttpResponse(code) == [kind |-> "response", status_code |-> code]
TransportError(msg) == [kind |-> "exception", message |-> msg]

HttpOk == 200
Responses == {HttpResponse(HttpOk), HttpResponse(404),
              TransportError("Read timed out")}

\* How a call ends: it returns a value or an exception leaves it.
Returns(v) == [ended |-> "returned", value |-> v]
Raises(e) == [ended |-> "raised", error |-> e]

\* The test of line 306.
IsFound(status_code) == status_code = HttpOk

\* Mutant: check_url without its try/except.
check_url_unguarded(url, resp) ==
    IF resp.kind = "response"
    THEN Returns([platform |-> platform(url), url |-> url,
                  status |-> IF IsFound(resp.status_code) THEN "Found" ELSE "Not found",
                  response_code |-> [int |-> resp.status_code]])
    ELSE Raises(resp.message)

\* check_url(url) when requests.get answers resp.
check_url(url, resp) ==
    IF resp.kind = "response"
    THEN IF IsFound(resp.status_code)
         THEN Returns([platform |-> platform(url), url |-> url, status |-> "Found",
                       response_code |-> [int |-> resp.status_code]])
         ELSE Returns([platform |-> platform(url), url |-> url, status |-> "Not found",
                       response_code |-> [int |-> resp.status_code]])
    ELSE Returns([platform |-> platform(url), url |-> url, status |-> "Error",
                  response_code |-> [str |-> resp.message]])

\* ------------------------------------------------------------------------
\* search_external_references (lines 282-339)
\* ------------------------------------------------------------------------
\* Mutant: a pool with one thread per site.
max_workers_per_site == NumSites

max_workers == 5

InFlight == {k \in Sites : task[k] = "running"}

\* ThreadPoolExecutor(max_workers=5): a queued task starts when fewer than
\* max_workers tasks are running.
WorkerFree(running) == running < max_workers

\* Mutant: the results taken in the order in which the calls end.
NextYieldAsCompleted(yielded, ended) ==
    {k \in ended : \A j \in 1..Len(yielded) : yielded[j].url # sites_to_check[k]}

\* list(executor.map(...)): the iterator yields the results in the order of
\* the submitted calls: after the list yielded, the next result it can
\* yield is that of the next call, once that call has ended.
NextYield(yielded, ended) ==
    IF Len(yielded) + 1 \in ended THEN {Len(yielded) + 1} ELSE {}

\* Lines 330-331: executor.map submits one call per site, in list order.
ProbeSubmit ==
    /\ probe_pc = "start"
    /\ probe_pc' = "map"
    /\ task' = [k \in Sites |-> "queued"]
    /\ UNCHANGED <<response, future, collected, overtaken>>

\* A pool thread takes the oldest queued call and calls check_url.
WorkerStart ==
    /\ probe_pc \in {"map", "shutdown"}
    /\ \E k \in Sites :
          /\ task[k] = "queued"
          /\ \A j \in 1..(k - 1) : task[j] # "queued"
          /\ WorkerFree(Cardinality(InFlight))
          /\ task' = [task EXCEPT ![k] = "running"]
    /\ UNCHANGED <<probe_pc, response, future, collected, overtaken>>

\* requests.get answers and check_url ends.
WorkerFinish ==
    /\ probe_pc \in {"map", "shutdown"}
    /\ \E k \in Sites, r \in Responses :
          /\ task[k] = "running"
          /\ task' = [task EXCEPT ![k] = "done"]
          /\ response' = [response EXCEPT ![k] = Some(r)]
          /\ future' = [future EXCEPT ![k] = Some(check_url(sites_to_check[k], r))]
          /\ overtaken' = (overtaken \/ \E j \in 1..(k - 1) : task[j] # "done")
    /\ UNCHANGED <<probe_pc, collected>>

\* list() takes the next result from the map iterator; a call that ended in
\* an exception makes the iterator raise it, and the with-block is left.
ProbeCollect ==
    /\ probe_pc = "map"
    /\ Len(collected) < NumSites
    /\ \E k \in NextYield(collected, {j \in Sites : task[j] = "done"}) :
          IF future[k][1].ended = "raised"
          THEN /\ probe_pc' = "shutdown"
               /\ UNCHANGED collected
          ELSE /\ collected' = Append(collected, future[k][1].value)
               /\ UNCHANGED probe_pc
    /\ UNCHANGED <<task, response, future, overtaken>>

\* list() has every result: the with-block is left.
ProbeListed ==
    /\ probe_pc = "map"
    /\ Len(collected) = NumSites
    /\ probe_pc' = "shutdown"
    /\ UNCHANGED <<task, response, future, collected, overtaken>>

\* Leaving the with-block of line 330 waits for every submitted call
\* (shutdown(wait=True)); then lines 333-339 return the list, or the
\* exception list() met propagates.
ProbeReturn ==
    /\ probe_pc = "shutdown"
    /\ \A k \in Sites : task[k] = "done"
    /\ probe_pc' = IF Len(collected) = NumSites THEN "returned" ELSE "raised"
    /\ UNCHANGED <<task, response, future, collected, overtaken>>

notProbe == <<inputVars, pc, stages, printed, profile_data, posts_analysis,
              connections, external_refs, postLocals, time_patterns, exportVars>>

SearchExternalReferences ==
    \/ ProbeSubmit /\ UNCHANGED notProbe
    \/ WorkerStart /\ UNCHANGED notProbe
    \/ WorkerFinish /\ UNCHANGED notProbe
    \/ ProbeCollect /\ UNCHANGED notProbe
    \/ ProbeListed /\ UNCHANGED notProbe
    \/ ProbeReturn /\ UNCHANGED notProbe

\* The list search_external_references returns when the network answers
\* site k with answers[k], whatever the order in which the calls end.
search_external_references(answers) ==
    [k \in Sites |-> check_url(sites_to_check[k], answers[k]).value]

\* ------------------------------------------------------------------------
\* export_results (lines 341-424)
\* ------------------------------------------------------------------------
Artifacts == {"json", "profile_csv", "posts_csv", "locations_csv"}

\* A file of the results directory.  A json document is written key by key
\* and a csv file row by row; written counts the units that reached the file.
Absent == [exists |-> FALSE, written |-> 0, closed |-> FALSE]
Created == [exists |-> TRUE, written |-> 0, closed |-> FALSE]

\* The dict of lines 347-357 (the timestamp is left out).
ExportedResults(pd, pa, conns, refs) ==
    [profile_data |-> pd,
     posts_analysis |-> pa,
     connections |-> IF conns # None THEN conns[1] ELSE EmptyDict,
     external_references |-> IF refs # None THEN refs[1] ELSE <<>>,
     scan_metadata |-> [tool |-> "InstaScan", target |-> "target"]]

ProfileCsvRows == 2

\* How many units the complete artifact a holds.
Units(a, res) ==
    CASE a = "json" -> Cardinality(DOMAIN res)
      [] a = "profile_csv" -> ProfileCsvRows
      [] a = "posts_csv" -> 1 + Len(res.posts_analysis.posts_data)
      [] a = "locations_csv" -> 1 + Len(res.posts_analysis.locations)

\* The first with-block export_results enters ("none": it writes no file).
FirstArtifact(format) ==
    IF format = "json" THEN "json"
    ELSE IF format = "csv" THEN "profile_csv"
    ELSE "none"

\* The with-block entered after that of artifact a (lines 373 and 381).
NextArtifact(a, res) ==
    IF a = "profile_csv" /\ res.posts_analysis.posts_data # <<>> THEN "posts_csv"
    ELSE IF a \in {"profile_csv", "posts_csv"} /\ res.posts_analysis.locations # <<>>
         THEN "locations_csv"
    ELSE "none"

\* Mutant: the file of a failed write removed again.
RemovedAfterFailedWrite(file) == Absent

\* The file a write failed on, as the with-block leaves it: it is closed
\* and keeps what was written before the failure.
AfterFailedWrite(file) == [file EXCEPT !.closed = TRUE]

ExportedJson == "[+] Results exported to json"
ExportedCsv == "[+] Results exported to csv files"
TextReport == "RESULTS FOR @target"

notExport == <<inputVars, profile_data, posts_analysis, connections,
               external_refs, postLocals, time_patterns, probeVars>>

\* Lines 343-360, 365 and 390: build the dict and branch on the format.
ExportBegin ==
    /\ pc = "export_results"
    /\ stages' = Append(stages, "export_results")
    /\ results' = Some(ExportedResults(profile_data[1], posts_analysis[1],
                                       connections, external_refs))
    /\ artifact' = FirstArtifact(output_format)
    /\ pc' = IF FirstArtifact(output_format) = "none" THEN "export_text"
             ELSE "export_open"
    /\ UNCHANGED <<fs, exception, printed, notExport>>

\* open(..., "w") of lines 361, 367, 374 and 382 creates the file, empty.
ExportOpen ==
    /\ pc = "export_open"
    /\ fs' = [fs EXCEPT ![artifact] = Created]
    /\ pc' = "export_write"
    /\ UNCHANGED <<results, artifact, exception, stages, printed, notExport>>

\* open() raises (OSError): no file is created, the exception leaves
\* export_results and run.
ExportOpenFails ==
    /\ pc = "export_open"
    /\ pc' = "raised"
    /\ exception' = Some("open failed")
    /\ UNCHANGED <<results, artifact, fs, stages, printed, notExport>>

\* json.dump or a csv writer writes the next unit.
ExportWrite ==
    /\ pc = "export_write"
    /\ fs[artifact].written < Units(artifact, results[1])
    /\ fs' = [fs EXCEPT ![artifact].written = @ + 1]
    /\ UNCHANGED <<pc, results, artifact, exception, stages, printed, notExport>>

\* Writing the next unit raises: the with-block closes the file and the
\* exception leaves export_results and run.
ExportWriteFails ==
    /\ pc = "export_write"
    /\ fs[artifact].written < Units(artifact, results[1])
    /\ fs' = [fs EXCEPT ![artifact] = AfterFailedWrite(@)]
    /\ pc' = "raised"
    /\ exception' = Some("write failed")
    /\ UNCHANGED <<results, artifact, stages, printed, notExport>>

\* The with-block ends: the file is closed; the next with-block is entered,
\* or lines 363 / 388 print and export_results returns.
ExportClose ==
    /\ pc = "export_write"
    /\ fs[artifact].written = Units(artifact, results[1])
    /\ fs' = [fs EXCEPT ![artifact].closed = TRUE]
    /\ artifact' = NextArtifact(artifact, results[1])
    /\ IF NextArtifact(artifact, results[1]) = "none"
       THEN /\ pc' = "elapsed"
            /\ printed' = Append(printed, IF artifact = "json" THEN ExportedJson
                                          ELSE ExportedCsv)
       ELSE /\ pc' = "export_open"
            /\ UNCHANGED printed
    /\ UNCHANGED <<results, exception, stages, notExport>>

\* Lines 390-424: the console report.
ExportText ==
    /\ pc = "export_text"
    /\ printed' = Append(printed, TextReport)
    /\ pc' = "elapsed"
    /\ UNCHANGED <<exportVars, stages, notExport>>

ExportResults ==
    \/ ExportBegin
    \/ ExportOpen
    \/ ExportOpenFails
    \/ ExportWrite
    \/ ExportWriteFails
    \/ ExportClose
    \/ ExportText

\* ------------------------------------------------------------------------
\* run (lines 426-455) and get_profile_data (lines 74-107)
\* ------------------------------------------------------------------------
ErrNoProfile == "[!] Profile does not exist"
WarnPrivate == "[!] Profile is private. Login required to access content."
ScanCompleted == "[+] Scan completed"

\* Mutant: the connection stage entered whatever the session and profile.
ConnectionsAlwaysWanted(logged_in, private) == TRUE

\* The test of line 445.
ConnectionsWanted(logged_in, private) == logged_in /\ ~private

\* What requests.get may answer during a whole scan.
RunResponses == {HttpResponse(HttpOk), TransportError("Read timed out")}

notRunLocals == <<inputVars, postLocals, time_patterns, exportVars, probeVars>>

\* Line 433: get_profile_data returns the profile and its dict, or ends the
\* process (sys.exit(1)) when the profile does not exist.
RunGetProfileData ==
    /\ pc = "start"
    /\ stages' = Append(stages, "get_profile_data")
    /\ IF profile_exists
       THEN /\ profile_data' = Some([username |-> "target", is_private |-> is_private])
            /\ pc' = "check_private"
            /\ UNCHANGED printed
       ELSE /\ printed' = Append(printed, ErrNoProfile)
            /\ pc' = "exit"
            /\ UNCHANGED profile_data
    /\ UNCHANGED <<posts_analysis, connections, external_refs, notRunLocals>>

\* Lines 436-438.
RunCheckPrivate ==
    /\ pc = "check_private"
    /\ printed' = IF is_private /\ ~is_logged_in THEN Append(printed, WarnPrivate)
                  ELSE printed
    /\ pc' = "analyze_posts"
    /\ UNCHANGED <<stages, profile_data, posts_analysis, connections,
                   external_refs, notRunLocals>>

\* Lines 444-446.
RunConnections ==
    /\ pc = "connections"
    /\ IF ConnectionsWanted(is_logged_in, is_private)
       THEN \E raises \in BOOLEAN :
              /\ connections' = Some(analyze_connections(is_private, is_logged_in,
                                         followers_src, followees_src, raises))
              /\ printed' = printed \o
                     analyze_connections_prints(is_private, is_logged_in, raises)
              /\ stages' = Append(stages, "analyze_connections")
       ELSE /\ connections' = None
            /\ UNCHANGED <<printed, stages>>
    /\ pc' = "external"
    /\ UNCHANGED <<profile_data, posts_analysis, external_refs, notRunLocals>>

\* Line 449.
RunExternal ==
    /\ pc = "external"
    /\ IF external_search
       THEN \E answers \in [Sites -> RunResponses] :
              /\ external_refs' = Some(search_external_references(answers))
              /\ stages' = Append(stages, "search_external_references")
       ELSE /\ external_refs' = None
            /\ UNCHANGED stages
    /\ pc' = "export_results"
    /\ UNCHANGED <<printed, profile_data, posts_analysis, connections, notRunLocals>>

\* Lines 454-455.
RunElapsed ==
    /\ pc = "elapsed"
    /\ printed' = Append(printed, ScanCompleted)
    /\ pc' = "done"
    /\ UNCHANGED <<stages, profile_data, posts_analysis, connections,
                   external_refs, notRunLocals>>

Run ==
    \/ RunGetProfileData
    \/ RunCheckPrivate
    \/ AnalyzePosts
    \/ RunConnections
    \/ RunExternal
    \/ ExportResults
    \/ RunElapsed

\* ------------------------------------------------------------------------
\* Direct calls of the two pure methods
\* ------------------------------------------------------------------------
\* analyze_posting_patterns(times_arg)
CallAnalyzePostingPatterns ==
    /\ pc = "call_patterns"
    /\ time_patterns' = Some(analyze_posting_patterns(times_arg))
    /\ pc' = "returned"
    /\ UNCHANGED <<inputVars, stages, printed, profile_data, posts_analysis,
                   connections, external_refs, postLocals, exportVars, probeVars>>

\* analyze_connections(profile)
CallAnalyzeConnections ==
    /\ pc = "call_connections"
    /\ \E raises \in BOOLEAN :
          /\ connections' = Some(analyze_connections(is_private, is_logged_in,
                                     followers_src, followees_src, raises))
          /\ printed' = printed \o
                 analyze_connections_prints(is_private, is_logged_in, raises)
    /\ stages' = Append(stages, "analyze_connections")
    /\ pc' = "returned"
    /\ UNCHANGED <<inputVars, profile_data, posts_analysis, external_refs,
                   postLocals, time_patterns, exportVars, probeVars>>

\* ------------------------------------------------------------------------
\* Initial states and specifications
\* ------------------------------------------------------------------------
MaxTimes == 3        \* longest list drawn for analyze_posting_patterns
MaxDay == 3          \* last day (after the epoch) a drawn timestamp falls on
MaxConn == 2         \* longest follower / followee list drawn
RunMaxPosts == 2     \* longest provider sequence drawn for a whole scan
RunLimit == 1        \* max_posts of a whole scan

SampleHours == {9, 23}
Times == {d * HoursPerDay + h : d \in 0..MaxDay, h \in SampleHours}

\* The state of everything run() and the stages write, before run() starts.
NothingDone ==
    /\ stages = <<>>
    /\ printed = <<>>
    /\ profile_data = None
    /\ posts_analysis = None
    /\ connections = None
    /\ external_refs = None
    /\ pulled = 0
    /\ i = 0 - 1
    /\ posts_data = <<>>
    /\ locations = <<>>
    /\ hashtags = <<>>
    /\ mentions = <<>>
    /\ post_times = <<>>
    /\ time_patterns = None
    /\ results = None
    /\ artifact = "none"
    /\ fs = [a \in Artifacts |-> Absent]
    /\ exception = None
    /\ task = [k \in Sites |-> "unsubmitted"]
    /\ response = [k \in Sites |-> None]
    /\ future = [k \in Sites |-> None]
    /\ collected = <<>>
    /\ overtaken = FALSE

PublicProfile ==
    /\ profile_exists = TRUE
    /\ is_private = FALSE
    /\ is_logged_in = TRUE
    /\ external_search = FALSE
    /\ output_format = "text"

NoPosts == source = <<>> /\ failAt = NoFail /\ max_posts = RunLimit
SampleConnections ==
    /\ followers_src = <<User("ann", "Ann"), User("bob", "Bob")>>
    /\ followees_src = <<User("ann", "Ann B."), User("eve", "Eve")>>

\* analyze_posts called on every provider sequence of up to MaxPosts posts,
\* with every limit from -1 to MaxLimit and every place the provider may
\* raise at.
InitPosts ==
    /\ pc = "analyze_posts"
    /\ probe_pc = "idle"
    /\ NothingDone
    /\ PublicProfile
    /\ SampleConnections
    /\ times_arg = <<>>
    /\ source \in SeqsUpTo(PostPool, MaxPosts)
    /\ failAt \in {NoFail} \cup (0..Len(source))
    /\ max_posts \in (0 - 1)..MaxLimit

SpecPosts == InitPosts /\ [][AnalyzePosts]_vars

MaxTagPosts == 3     \* longest provider sequence drawn from TagPostPool

\* Captions with more distinct hashtags and mentions than top_hashtags and
\* top_mentions keep (lines 183-184): one more than TopN in a single post,
\* a token first seen late that is counted again, and a token repeated
\* inside one caption.
ManyTags ==
    <<"t01", "t02", "t03", "t04", "t05", "t06", "t07",
      "t08", "t09", "t10", "t11", "t12", "t13", "t14",
      "t15", "t16", "t17", "t18", "t19", "t20", "t21">>
ManyNames ==
    <<"u01", "u02", "u03", "u04", "u05", "u06", "u07",
      "u08", "u09", "u10", "u11", "u12", "u13", "u14",
      "u15", "u16", "u17", "u18", "u19", "u20", "u21">>
PostWide == Post("W", 106, None, ManyTags, <<"u21", "u22">>)
PostLate == Post("L", 110, None, <<"t21", "t22", "t05">>, ManyNames)
PostTwice == Post("T", 153, None, <<"t22", "t22", "t03">>, <<"u22", "u22", "u07">>)
TagPostPool == {PostWide, PostLate, PostTwice}

\* analyze_posts called on every provider sequence of up to MaxTagPosts posts
\* of TagPostPool, with every limit from -1 to MaxLimit and every place the
\* provider may raise at.
InitTags ==
    /\ pc = "analyze_posts"
    /\ probe_pc = "idle"
    /\ NothingDone
    /\ PublicProfile
    /\ SampleConnections
    /\ times_arg = <<>>
    /\ source \in SeqsUpTo(TagPostPool, MaxTagPosts)
    /\ failAt \in {NoFail} \cup (0..Len(source))
    /\ max_posts \in (0 - 1)..MaxLimit

SpecTags == InitTags /\ [][AnalyzePosts]_vars

\* analyze_posting_patterns called on every list of up to MaxTimes timestamps.
InitPatterns ==
    /\ pc = "call_patterns"
    /\ probe_pc = "idle"
    /\ NothingDone
    /\ PublicProfile
    /\ SampleConnections
    /\ NoPosts
    /\ times_arg \in SeqsUpTo(Times, MaxTimes)

SpecPatterns == InitPatterns /\ [][CallAnalyzePostingPatterns]_vars

\* analyze_connections called on every pair of lists of up to MaxConn users.
InitConnections ==
    /\ pc = "call_connections"
    /\ probe_pc = "idle"
    /\ NothingDone
    /\ profile_exists = TRUE
    /\ is_private \in BOOLEAN
    /\ is_logged_in \in BOOLEAN
    /\ external_search = FALSE
    /\ output_format = "text"
    /\ NoPosts
    /\ times_arg = <<>>
    /\ followers_src \in SeqsUpTo(UserPool, MaxConn)
    /\ followees_src \in SeqsUpTo(UserPool, MaxConn)

SpecConnections == InitConnections /\ [][CallAnalyzeConnections]_vars

\* search_external_references called once.
InitProbe ==
    /\ pc = "idle"
    /\ probe_pc = "start"
    /\ NothingDone
    /\ PublicProfile
    /\ SampleConnections
    /\ NoPosts
    /\ times_arg = <<>>

SpecProbe == InitProbe /\ [][SearchExternalReferences]_vars

\* run() under every configuration.
InitRun ==
    /\ pc = "start"
    /\ probe_pc = "idle"
    /\ NothingDone
    /\ profile_exists \in BOOLEAN
    /\ is_private \in BOOLEAN
    /\ is_logged_in \in BOOLEAN
    /\ external_search \in BOOLEAN
    /\ output_format \in {"json", "csv", "text"}
    /\ SampleConnections
    /\ times_arg = <<>>
    /\ source \in SeqsUpTo({PostA, PostB}, RunMaxPosts)
    /\ failAt \in {NoFail, 0}
    /\ max_posts = RunLimit

SpecRun == InitRun /\ [][Run]_vars
\* ------------------------------------------------------------------------
\* Claims about analyze_posts
\* ------------------------------------------------------------------------
SummariesOf(ps) == [k \in 1..Len(ps) |-> PostSummary(ps[k])]
PostsReturned == posts_analysis # None
PostsFailed == ErrAnalyzingPosts \in Range(printed)

\* C1: for a limit >= 0 and a provider sequence of n posts whose enumeration
\* does not fail, the returned bundle holds exactly the summaries of the
\* first min(limit, n) source posts, in source order, and posts_analyzed is
\* that number.
C1_WindowIsPrefix ==
    (PostsReturned /\ ~PostsFailed /\ max_posts >= 0) =>
        /\ posts_analysis[1].posts_data =
               SummariesOf(Prefix(source, Min(max_posts, Len(source))))
        /\ posts_analysis[1].posts_analyzed = Min(max_posts, Len(source))
        /\ Len(posts_analysis[1].posts_data) = Min(max_posts, Len(source))

\* C1 witness: a run that returned without failure from a source longer than
\* a positive limit, so that the window cut posts off.
C1_Witness ==
    /\ PostsReturned /\ ~PostsFailed
    /\ max_posts >= 1 /\ Len(source) > max_posts
    /\ posts_analysis[1].posts_analyzed = max_posts

\* C2 as stated: when the provider raises after k posts were consumed
\* (0 <= k < limit), the returned bundle reflects exactly those k posts.
C2_PrefixKeptOnFailure ==
    (PostsReturned /\ PostsFailed /\ failAt < max_posts) =>
        /\ posts_analysis[1].posts_analyzed = failAt
        /\ posts_analysis[1].posts_data = SummariesOf(Prefix(source, failAt))
        /\ posts_analysis[1].time_patterns =
               analyze_posting_patterns([k \in 1..failAt |-> source[k].date_utc])

\* C2 amended: when the provider raises after k posts were consumed
\* (0 <= k < limit), analyze_posts still returns (the failure is printed and
\* not propagated) and the bundle is the zeroed one for every k: the k
\* consumed posts are discarded.
C2_ZeroedOnFailure ==
    /\ (PostsFailed /\ failAt < max_posts) =>
          /\ PostsReturned
          /\ pc = "connections"
          /\ posts_analysis[1] = FailedAnalysisResults
          /\ posts_analysis[1].posts_analyzed = 0
          /\ posts_analysis[1].posts_data = <<>>
          /\ posts_analysis[1].time_patterns = EmptyDict
    /\ (pc = "posts_loop" /\ failAt = pulled) => ENABLED PostsRaise

\* C2 witness: the provider raised after at least one post had been
\* consumed, below the limit, and analyze_posts returned.
C2_Witness ==
    /\ PostsReturned /\ PostsFailed
    /\ failAt >= 1 /\ failAt < max_posts
    /\ Len(posts_data) = failAt

\* ------------------------------------------------------------------------
\* Claims about search_external_references and check_url
\* ------------------------------------------------------------------------
Answered == {k \in Sites : response[k] # None}
ProbeReturned == probe_pc = "returned"

\* C3: the call returns exactly one result per configured URL, the i-th
\* result being that of checking the i-th URL, whichever calls end first and
\* whichever fail; what list() has taken so far is always the results of the
\* first URLs in list order; and the call returns only after every
\* submitted call has ended.
C3_ResultsInSiteOrder ==
    /\ probe_pc # "raised"
    /\ Len(collected) <= NumSites
    /\ \A k \in 1..Len(collected) :
          /\ task[k] = "done"
          /\ collected[k].url = sites_to_check[k]
          /\ collected[k] = future[k][1].value
    /\ ProbeReturned =>
          /\ Len(collected) = NumSites
          /\ \A k \in Sites : task[k] = "done"
          /\ collected = search_external_references([k \in Sites |-> response[k][1]])

\* C3 witness: the call returned although some call ended before one
\* submitted earlier and although some call met a transport failure.
C3_Witness ==
    /\ ProbeReturned
    /\ overtaken
    /\ \E k \in Sites : response[k][1].kind = "exception"
    /\ \E k \in Sites : response[k][1].kind = "response"

ConcurrencyCeiling == 5

\* C4: never more than 5 checks are in flight, and while 5 are in flight a
\* queued check cannot start: it starts only after a running one has ended.
C4_AtMostFiveInFlight ==
    /\ Cardinality(InFlight) <= ConcurrencyCeiling
    /\ (Cardinality(InFlight) = ConcurrencyCeiling) => ~ENABLED WorkerStart

\* C4 witness: 5 checks in flight while the other sites are still queued.
C4_Witness ==
    /\ Cardinality(InFlight) = ConcurrencyCeiling
    /\ \E k \in Sites : task[k] = "queued"

\* The status the claim gives a check that the network answered with r.
ClaimedStatus(r) ==
    IF r.kind = "exception" THEN "Error"
    ELSE IF r.status_code = 200 THEN "Found"
    ELSE "Not found"

\* C5: every check ends in a result value, never in an exception: status
\* Found for HTTP 200, Not found for any other HTTP response, Error with the
\* failure's non-empty description for a transport failure; a result depends
\* on the answer to its own URL only, so a failed check changes no other
\* result, and the caller never sees an exception.
C5_FailuresIsolated ==
    /\ probe_pc # "raised"
    /\ \A k \in Answered :
          /\ future[k] # None
          /\ future[k][1].ended = "returned"
          /\ future[k][1].value.url = sites_to_check[k]
          /\ future[k][1].value.status = ClaimedStatus(response[k][1])
          /\ response[k][1].kind = "exception" =>
                /\ future[k][1].value.response_code = [str |-> response[k][1].message]
                /\ future[k][1].value.response_code.str # ""
          /\ response[k][1].kind = "response" =>
                future[k][1].value.response_code = [int |-> response[k][1].status_code]

\* C5 witness: the call returned with one check failed in transport, one
\* found and one not found.
C5_Witness ==
    /\ ProbeReturned
    /\ \E k \in Sites : collected[k].status = "Error"
    /\ \E k \in Sites : collected[k].status = "Found"
    /\ \E k \in Sites : collected[k].status = "Not found"

\* ------------------------------------------------------------------------
\* Claims about run and export_results
\* ------------------------------------------------------------------------
Occurrences(seq, x) == Cardinality({k \in 1..Len(seq) : seq[k] = x})
PrivateUnauthenticated == profile_exists /\ is_private /\ ~is_logged_in
BeforeConnections ==
    {"start", "check_private", "analyze_posts", "posts_loop", "posts_finish",
     "connections"}

\* C6: on a private profile without an authenticated session, run never
\* calls analyze_connections; it goes on with no connections (exported as an
\* empty connections entry) and the reason printed; no exception is raised on
\* the way to the export; export_results is entered exactly once, after
\* get_profile_data and analyze_posts and before the elapsed-time line; and
\* run can always go on until it has printed that line or a write of the
\* export itself has failed.
C6_PrivateSkipsConnections ==
    PrivateUnauthenticated =>
        /\ "analyze_connections" \notin Range(stages)
        /\ pc # "exit"
        /\ pc \notin BeforeConnections =>
              /\ connections = None
              /\ WarnPrivate \in Range(printed)
        /\ results # None => results[1].connections = EmptyDict
        /\ Occurrences(stages, "export_results") <= 1
        /\ "export_results" \in Range(stages) =>
              /\ stages[1] = "get_profile_data"
              /\ stages[2] = "analyze_posts"
              /\ stages[Len(stages)] = "export_results"
              /\ posts_analysis # None
        /\ pc = "raised" => (exception # None /\ "export_results" \in Range(stages))
        /\ pc \in {"elapsed", "done"} => Occurrences(stages, "export_results") = 1
        /\ ScanCompleted \in Range(printed) =>
              (pc = "done" /\ Occurrences(stages, "export_results") = 1)
        /\ pc \notin {"done", "raised"} => ENABLED Run

\* C6 witness: a scan of a private profile without a session that ended
\* after exporting json.
C6_Witness ==
    /\ PrivateUnauthenticated
    /\ pc = "done"
    /\ output_format = "json"
    /\ fs["json"].closed
    /\ results[1].connections = EmptyDict

FullyWritten(a) == fs[a].written = Units(a, results[1])

\* C7 as stated: an artifact a failure occurred on does not exist
\* afterwards, and once export_results is over (returned or failed) every
\* artifact that exists is fully written.
C7_AtomicPerArtifact ==
    /\ (pc = "raised" /\ artifact \in Artifacts) => ~fs[artifact].exists
    /\ pc \in {"raised", "elapsed", "done"} =>
          \A a \in Artifacts : fs[a].exists => FullyWritten(a)

\* C7 amended: export is not atomic per artifact.  A file is created when
\* its with-block opens it and is written in place: if opening fails the
\* artifact does not exist; if a write fails the artifact exists afterwards,
\* closed, holding the units written before the failure and not all of them.
\* Every other artifact that exists after export_results is over is fully
\* written, and after a return without failure so is every artifact.
C7_PartialFileOnFailure ==
    /\ (pc = "raised" /\ exception = Some("open failed")) =>
          ~fs[artifact].exists
    /\ (pc = "raised" /\ exception = Some("write failed")) =>
          /\ fs[artifact].exists
          /\ fs[artifact].closed
          /\ fs[artifact].written < Units(artifact, results[1])
    /\ pc \in {"raised", "elapsed", "done"} =>
          \A a \in Artifacts :
              (fs[a].exists /\ ~(pc = "raised" /\ a = artifact)) =>
                  (FullyWritten(a) /\ fs[a].closed)
    /\ pc \in {"elapsed", "done"} =>
          /\ exception = None
          /\ output_format = "json" => fs["json"].exists
          /\ output_format = "csv" =>
                /\ fs["profile_csv"].exists
                /\ fs["posts_csv"].exists = (posts_analysis[1].posts_data # <<>>)
                /\ fs["locations_csv"].exists = (posts_analysis[1].locations # <<>>)

\* C7 witness: a write failed after part of the artifact had been written.
C7_Witness ==
    /\ pc = "raised"
    /\ exception = Some("write failed")
    /\ fs[artifact].exists
    /\ fs[artifact].written >= 1
    /\ fs[artifact].written < Units(artifact, results[1])

\* ------------------------------------------------------------------------
\* Claims about analyze_posting_patterns
\* ------------------------------------------------------------------------
PatternsReturned == pc = "returned" /\ time_patterns # None

\* C8 as stated: for the empty list the summary holds all 7 day buckets and
\* all 24 hour buckets, each 0, no most-active day or hour, and frequency 0.
C8_ZeroHistograms ==
    (PatternsReturned /\ times_arg = <<>>) =>
        /\ "day_activity" \in DOMAIN time_patterns[1]
        /\ "hour_activity" \in DOMAIN time_patterns[1]
        /\ "post_frequency_days" \in DOMAIN time_patterns[1]
        /\ DOMAIN time_patterns[1].day_activity = Range(days_of_week)
        /\ DOMAIN time_patterns[1].hour_activity = 0..23
        /\ \A d \in Range(days_of_week) : time_patterns[1].day_activity[d] = 0
        /\ \A h \in 0..23 : time_patterns[1].hour_activity[h] = 0
        /\ "most_active_day" \notin DOMAIN time_patterns[1]
        /\ "most_active_hour" \notin DOMAIN time_patterns[1]
        /\ time_patterns[1].post_frequency_days.num = 0

\* C8 amended: for the empty list analyze_posting_patterns never fails and
\* returns the empty summary: no day or hour bucket, no most-active day or
\* hour and no frequency entry; for a non-empty list all 7 day buckets and
\* all 24 hour buckets are present.
C8_EmptySummary ==
    /\ pc = "call_patterns" => ENABLED CallAnalyzePostingPatterns
    /\ (PatternsReturned /\ times_arg = <<>>) =>
          /\ DOMAIN time_patterns[1] = {}
          /\ time_patterns[1] = EmptyDict
    /\ (PatternsReturned /\ times_arg # <<>>) =>
          /\ DOMAIN time_patterns[1].day_activity = Range(days_of_week)
          /\ DOMAIN time_patterns[1].hour_activity = 0..23

\* C8 witness: the call on the empty list has returned.
C8_Witness == PatternsReturned /\ times_arg = <<>>

\* abs(a - b).days: the absolute number of whole days between a and b
AbsoluteDays(a, b) == Abs(a - b) \div HoursPerDay

\* C9 as stated: for more than one timestamp the frequency is
\* count / max(d, 1), d the absolute number of whole days between the first
\* and the last element, so that the reversed list gives the same frequency.
C9_AbsoluteSpan ==
    (PatternsReturned /\ Len(times_arg) > 1) =>
        /\ time_patterns[1].post_frequency_days =
               [num |-> Len(times_arg),
                den |-> Max(AbsoluteDays(times_arg[1], times_arg[Len(times_arg)]), 1)]
        /\ time_patterns[1].post_frequency_days =
               analyze_posting_patterns(Reverse(times_arg)).post_frequency_days

\* ------------------------------------------------------------------------
\* Claims about analyze_connections
\* ------------------------------------------------------------------------
ConnectionsDiffed ==
    /\ pc = "returned"
    /\ connections # None
    /\ "not_following_back" \in DOMAIN connections[1]

Handles(us) == {us[k].username : k \in 1..Len(us)}
HandleList(us) == [k \in 1..Len(us) |-> us[k].username]
Permuted(us) ==
    {[k \in 1..Len(us) |-> us[f[k]]] :
        f \in {g \in [1..Len(us) -> 1..Len(us)] :
                  \A a, b \in 1..Len(us) : g[a] = g[b] => a = b}}

\* C10: not_following_back is the followees whose handle no follower entry
\* carries, not_followed_back the followers whose handle no followee entry
\* carries, whatever else the entries hold; permuting either input list
\* leaves both derived lists the same as sets.
C10_DiffByHandle ==
    ConnectionsDiffed =>
        /\ connections[1].not_following_back =
               SelectSeq(HandleList(followees_src),
                         LAMBDA h : h \notin Handles(followers_src))
        /\ connections[1].not_followed_back =
               SelectSeq(HandleList(followers_src),
                         LAMBDA h : h \notin Handles(followees_src))
        /\ \A fp \in Permuted(followers_src), gp \in Permuted(followees_src) :
              LET again == analyze_connections(is_private, is_logged_in, fp, gp, FALSE)
              IN  /\ Range(again.not_following_back) =
                         Range(connections[1].not_following_back)
                  /\ Range(again.not_followed_back) =
                         Range(connections[1].not_followed_back)

\* C10 witness: a diff of lists in which one handle occurs on both sides
\* with different other fields, and in which both derived lists are
\* non-empty.
C10_Witness ==
    /\ ConnectionsDiffed
    /\ \E a \in Range(followers_src), b \in Range(followees_src) :
          a.username = b.username /\ a # b
    /\ connections[1].not_following_back # <<>>
    /\ connections[1].not_followed_back # <<>>

\* ------------------------------------------------------------------------
\* Claims about the frequency tables of analyze_posts
\* ------------------------------------------------------------------------
RECURSIVE Flatten(_)
Flatten(seqs) == IF seqs = <<>> THEN <<>> ELSE Head(seqs) \o Flatten(Tail(seqs))

\* The posts a returned bundle accounts for, and the hashtags and mentions
\* of their captions in reading order.
Consumed == Prefix(source, posts_analysis[1].posts_analyzed)
HashtagsSeen == Flatten([k \in 1..Len(Consumed) |-> Consumed[k].caption_hashtags])
MentionsSeen == Flatten([k \in 1..Len(Consumed) |-> Consumed[k].caption_mentions])

FirstSeen(stream, token) ==
    CHOOSE k \in 1..Len(stream) :
        stream[k] = token /\ \A j \in 1..(k - 1) : stream[j] # token

\* The table holds one entry per token of the stream, with its number of
\* occurrences.
CountsMatch(table, stream) ==
    /\ {table[k][1] : k \in 1..Len(table)} = Range(stream)
    /\ \A j, k \in 1..Len(table) : j # k => table[j][1] # table[k][1]
    /\ \A k \in 1..Len(table) : table[k][2] = Occurrences(stream, table[k][1])

\* The list holds the 20 best entries of the table (all of them when the
\* table has fewer), by count descending, equal counts in first-seen order.
IsTopList(top, table, stream) ==
    /\ Len(top) <= 20
    /\ Len(top) = Min(20, Len(table))
    /\ Range(top) \subseteq Range(table)
    /\ \A j, k \in 1..Len(top) :
          j < k => \/ top[j][2] > top[k][2]
                   \/ /\ top[j][2] = top[k][2]
                      /\ FirstSeen(stream, top[j][1]) < FirstSeen(stream, top[k][1])
    /\ \A e \in Range(table) \ Range(top) :
          \A k \in 1..Len(top) : e[2] <= top[k][2]

\* C11: when analyze_posts returns without having failed, the count of every
\* hashtag and of every mention is its number of occurrences in the captions
\* of the consumed posts, and top_hashtags and top_mentions hold at most 20
\* (token, count) pairs, by count descending, tokens of equal count in
\* first-seen order, no omitted token having a higher count than a listed one.
C11_TopTokensCounted ==
    (PostsReturned /\ ~PostsFailed) =>
        /\ CountsMatch(hashtags, HashtagsSeen)
        /\ CountsMatch(mentions, MentionsSeen)
        /\ IsTopList(posts_analysis[1].top_hashtags, hashtags, HashtagsSeen)
        /\ IsTopList(posts_analysis[1].top_mentions, mentions, MentionsSeen)

\* Some entry of the list has the same count as the entry before it, some
\* entry was seen before the entry before it, and the table has entries the
\* list leaves out.
CutTiedAndReordered(top, table, stream) ==
    /\ Len(table) > 20
    /\ Range(table) \ Range(top) # {}
    /\ \E k \in 2..Len(top) : top[k - 1][2] = top[k][2]
    /\ \E k \in 2..Len(top) :
          FirstSeen(stream, top[k][1]) < FirstSeen(stream, top[k - 1][1])

\* C11 witness: analyze_posts returned without failure, a token was counted
\* more than once, and both lists were cut at 20 entries, hold ties and put a
\* later-seen token ahead of earlier ones.
C11_Witness ==
    /\ PostsReturned
    /\ ~PostsFailed
    /\ \E k \in 1..Len(hashtags) : hashtags[k][2] > 1
    /\ \E k \in 1..Len(mentions) : mentions[k][2] > 1
    /\ CutTiedAndReordered(posts_analysis[1].top_hashtags, hashtags, HashtagsSeen)
    /\ CutTiedAndReordered(posts_analysis[1].top_mentions, mentions, MentionsSeen)

\* ------------------------------------------------------------------------
\* Claims about how far analyze_posts advances the provider sequence
\* ------------------------------------------------------------------------
\* C12 as first stated: for a limit >= 0, the provider sequence is advanced
\* at most limit times, so no record beyond the limit is requested.
C12_AdvancedAtMostLimit ==
    (max_posts >= 0) => pulled <= max_posts

\* C12: for a limit >= 0, the provider sequence is advanced at most limit + 1
\* times and at most limit records are summarised; when the sequence holds
\* more than limit records and does not fail, the record after the limit is
\* requested too (and dropped), so it is advanced exactly limit + 1 times.
C12_AdvancedAtMostLimitPlusOne ==
    (max_posts >= 0) =>
        /\ pulled <= max_posts + 1
        /\ Len(posts_data) <= max_posts
        /\ (PostsReturned /\ ~PostsFailed /\ Len(source) > max_posts)
              => /\ pulled = max_posts + 1
                 /\ posts_analysis[1].posts_analyzed = max_posts

\* C12 witness: analyze_posts returned, without failure, from a provider
\* sequence holding at least two records more than a limit >= 1, having
\* requested exactly one record beyond the limit.
C12_Witness ==
    /\ PostsReturned
    /\ ~PostsFailed
    /\ max_posts >= 1
    /\ Len(source) >= max_posts + 2
    /\ pulled = max_posts + 1
    /\ Len(posts_data) = max_posts

====
